---- MODULE Spec2Model ----
(***************************************************************************)
(* Model of main.py: the in-memory transaction snapshot (app_state), its   *)
(* load at startup (lifespan), the analytics fold (calculate_analytics)    *)
(* and the three read endpoints (/transactions, /summary, /tips).          *)
(*                                                                         *)
(* Money is modelled in whole currency units (exact integers); every       *)
(* figure that the code passes through round(x, 2) is carried in           *)
(* hundredths.  Dates are day ordinals.  An Optional value is a sequence   *)
(* of length at most one (<<>> is None).                                   *)
(***************************************************************************)
EXTENDS Integers, Sequences, FiniteSets, TLC

\* ---------------------------------------------------------------- bounds
MaxLen == 2        \* records in a fixture that may contain invalid records
MaxTxns == 2       \* records in a fixture of the analytics family
MaxTipTxns == 3    \* records in a fixture of the tips family
MaxDay == 2        \* dates are the day ordinals 1..MaxDay

NumBoosts == 5     \* len(dopamine_boosts)
CoffeeThreshold == 200
TipLimit == 3      \* tips[:3]
BurnDays == 30

Incomes == {-50, 0, 50, 350}

None == <<>>
Some(x) == <<x>>

\* ------------------------------------------------------- fixture contents
Txn(d, a, ty, c) == [date |-> d, amount |-> a, type |-> ty, category |-> c]
Raw(ok, t) == [ok |-> ok, txn |-> t]

\* records that may fail validation (the load-failure paths)
LifecycleRecords ==
  { Raw(ok, Txn(d, 100, "debit", c)) :
      ok \in BOOLEAN, d \in {1, 2}, c \in {"Food Delivery", "Sutta"} }

\* valid records with negative, zero and positive amounts, an unrecognized
\* type, and dates at both ends of the calendar
AnalyticsRecords ==
  { Raw(TRUE, Txn(d, a, ty, "Shopping")) :
      d \in {1, MaxDay}, a \in {-100, 0, 100}, ty \in {"debit", "credit", "Debit"} }
  \cup { Raw(TRUE, Txn(d, a, "debit", "Coffee")) : d \in {1, MaxDay}, a \in {0, 100} }

\* valid same-day records over the categories the tips look at
TipRecords ==
  { Raw(TRUE, Txn(1, a, "debit", c)) :
      a \in {100, 300}, c \in {"Food Delivery", "Coffee"} }
  \cup { Raw(TRUE, Txn(1, 300, "debit", c)) : c \in {"Shopping", "Going Out", "Rent"} }
  \cup { Raw(TRUE, Txn(1, 100, "debit", "Sutta")),
         Raw(TRUE, Txn(1, 0, "debit", "Sutta")),
         Raw(TRUE, Txn(1, 100, "credit", "Sutta")) }

SeqsUpTo(S, n) == UNION { [1..k -> S] : k \in 0..n }

Fixtures ==
  { [kind |-> k, records |-> <<>>] : k \in {"missing", "malformed"} }
  \cup { [kind |-> "records", records |-> rs] :
           rs \in SeqsUpTo(LifecycleRecords, MaxLen)
                  \cup SeqsUpTo(AnalyticsRecords, MaxTxns)
                  \cup SeqsUpTo(TipRecords, MaxTipTxns) }

VARIABLES fixture, app_state, phase, response
vars == <<fixture, app_state, phase, response>>

\* ------------------------------------------------ calculate_analytics
\* variant: the type is matched without regard to letter case
RECURSIVE SumOfType_AnyCase(_, _)
SumOfType_AnyCase(txs, ty) ==
  IF txs = <<>> THEN 0
  ELSE (IF Head(txs).type = ty \/ (ty = "debit" /\ Head(txs).type = "Debit")
          THEN Head(txs).amount ELSE 0)
       + SumOfType_AnyCase(Tail(txs), ty)

RECURSIVE SumOfType(_, _)
SumOfType(txs, ty) ==
  IF txs = <<>> THEN 0
  ELSE (IF Head(txs).type = ty THEN Head(txs).amount ELSE 0)
       + SumOfType(Tail(txs), ty)

\* dict keys in insertion order, as a sequence of [k, v] entries
HasKey(d, k) == \E i \in 1..Len(d) : d[i].k = k
Lookup(d, k) == d[CHOOSE i \in 1..Len(d) : d[i].k = k].v
AddTo(d, k, a) ==
  IF HasKey(d, k)
    THEN [i \in 1..Len(d) |-> IF d[i].k = k THEN [k |-> k, v |-> d[i].v + a] ELSE d[i]]
    ELSE Append(d, [k |-> k, v |-> 0 + a])

\* variant: a debit of amount 0 does not create its category's key
RECURSIVE SpendFold_SkipZero(_, _)
SpendFold_SkipZero(txs, d) ==
  IF txs = <<>> THEN d
  ELSE SpendFold_SkipZero(Tail(txs),
         IF Head(txs).type = "debit" /\ Head(txs).amount # 0
           THEN AddTo(d, Head(txs).category, Head(txs).amount)
           ELSE d)

RECURSIVE SpendFold(_, _)
SpendFold(txs, d) ==
  IF txs = <<>> THEN d
  ELSE SpendFold(Tail(txs),
         IF Head(txs).type = "debit"
           THEN AddTo(d, Head(txs).category, Head(txs).amount)
           ELSE d)

spend_by_category(txs) == SpendFold(txs, <<>>)

MinDate(txs) == CHOOSE d \in {txs[i].date : i \in 1..Len(txs)} :
                  \A j \in 1..Len(txs) : d <= txs[j].date
MaxDate(txs) == CHOOSE d \in {txs[i].date : i \in 1..Len(txs)} :
                  \A j \in 1..Len(txs) : d >= txs[j].date

\* variant: the day count leaves out the first day
period_days_Exclusive(txs) == MaxDate(txs) - MinDate(txs)

period_days(txs) == (MaxDate(txs) - MinDate(txs)) + 1

calculate_analytics(txs) ==
  IF txs = <<>>
    THEN [total_spend |-> 0, total_income |-> 0,
          spend_by_category |-> <<>>, period_days |-> 0]
    ELSE [total_spend |-> SumOfType(txs, "debit"),
          total_income |-> SumOfType(txs, "credit"),
          spend_by_category |-> spend_by_category(txs),
          period_days |-> period_days(txs)]

\* ------------------------------------------------------- number helpers
\* nearest integer to n/d (d > 0), ties to even: round() and the .0f format
RoundHalfEven(n, d) ==
  LET q == n \div d
      r == n % d
  IN  IF 2 * r < d THEN q
      ELSE IF 2 * r > d THEN q + 1
      ELSE IF q % 2 = 0 THEN q ELSE q + 1

\* int(n/d) for d > 0: truncation toward zero
IntOf(n, d) == IF n >= 0 THEN n \div d ELSE -((-n) \div d)

\* round(x, 2) of a whole amount, in hundredths
Round2(x) == RoundHalfEven(x * 100, 1)

\* ------------------------------------------------------------- lifespan
AllValid(rs) == \A i \in 1..Len(rs) : rs[i].ok
Parsed(rs) == [i \in 1..Len(rs) |-> rs[i].txn]

\* variant: records are kept one by one until the first invalid one
LoadTransactions_Prefix(f) ==
  IF f.kind # "records" THEN <<>>
  ELSE LET bad == { i \in 1..Len(f.records) : ~f.records[i].ok }
           n == IF bad = {} THEN Len(f.records)
                ELSE (CHOOSE i \in bad : \A j \in bad : i <= j) - 1
       IN  Parsed(SubSeq(f.records, 1, n))

LoadTransactions(f) ==
  IF f.kind = "records" /\ AllValid(f.records) THEN Parsed(f.records) ELSE <<>>

Init ==
  /\ fixture \in Fixtures
  /\ app_state = [transactions |-> <<>>]
  /\ phase = "boot"
  /\ response = [op |-> "none"]

Startup ==
  /\ phase = "boot"
  /\ app_state' = [app_state EXCEPT !.transactions = LoadTransactions(fixture)]
  /\ phase' = "running"
  /\ UNCHANGED <<fixture, response>>

Shutdown ==
  /\ phase = "running"
  /\ app_state' = [k \in {} |-> <<>>]
  /\ phase' = "stopped"
  /\ UNCHANGED <<fixture, response>>

\* ------------------------------------------------------------ endpoints
get_all_transactions ==
  /\ phase = "running"
  /\ response' = [op |-> "list", status |-> 200, body |-> app_state.transactions]
  /\ UNCHANGED <<fixture, app_state, phase>>

\* variant: the quotient is taken even when nothing is left
DaysLeft_NoFloorAtZero(total_spend, pdays, money_left) ==
  IF pdays > 0 /\ total_spend > 0
    THEN Some(IntOf(money_left * pdays, total_spend))
    ELSE None

DaysLeft(total_spend, pdays, money_left) ==
  \* daily_spend_rate = total_spend / pdays if pdays > 0 else 0
  IF pdays > 0 /\ total_spend > 0
    THEN IF money_left > 0
           THEN Some(IntOf(money_left * pdays, total_spend))
           ELSE Some(0)
    ELSE None

SummaryBody(txs, monthly_income) ==
  LET a == calculate_analytics(txs)
      money_left == monthly_income - a.total_spend
  IN  [total_spend |-> Round2(a.total_spend),
       total_income |-> Round2(a.total_income),
       net_flow |-> Round2(a.total_income - a.total_spend),
       spend_by_category |->
         [i \in 1..Len(a.spend_by_category) |->
            [k |-> a.spend_by_category[i].k, v |-> Round2(a.spend_by_category[i].v)]],
       monthly_burn_rate_projection |->
         IF a.period_days > 0
           THEN RoundHalfEven(a.total_spend * BurnDays * 100, a.period_days)
           ELSE 0,
       money_left_from_income |-> Round2(money_left),
       days_until_broke_projection |->
         DaysLeft(a.total_spend, a.period_days, money_left),
       period_days |-> a.period_days]

\* variant: the empty snapshot is reported before the income is validated
SummaryResponse_DataFirst(txs, monthly_income) ==
  IF txs = <<>>
    THEN [op |-> "summary", status |-> 404, income |-> monthly_income]
  ELSE IF ~(monthly_income > 0)
    THEN [op |-> "summary", status |-> 422, income |-> monthly_income]
  ELSE [op |-> "summary", status |-> 200, income |-> monthly_income,
        body |-> SummaryBody(txs, monthly_income)]

SummaryResponse(txs, monthly_income) ==
  IF ~(monthly_income > 0)
    THEN [op |-> "summary", status |-> 422, income |-> monthly_income]
  ELSE IF txs = <<>>
    THEN [op |-> "summary", status |-> 404, income |-> monthly_income]
  ELSE [op |-> "summary", status |-> 200, income |-> monthly_income,
        body |-> SummaryBody(txs, monthly_income)]

\* variant: the snapshot is sorted by date in place before the analytics
InsertByDate(sorted, e) ==
  LET n == Cardinality({ i \in 1..Len(sorted) : sorted[i].date <= e.date })
  IN  SubSeq(sorted, 1, n) \o <<e>> \o SubSeq(sorted, n + 1, Len(sorted))
RECURSIVE SortByDate(_, _)
SortByDate(items, sorted) ==
  IF items = <<>> THEN sorted
  ELSE SortByDate(Tail(items), InsertByDate(sorted, Head(items)))
get_summary_SortsInPlace(monthly_income) ==
  /\ phase = "running"
  /\ response' = SummaryResponse(app_state.transactions, monthly_income)
  /\ app_state' = [app_state EXCEPT !.transactions = SortByDate(@, <<>>)]
  /\ UNCHANGED <<fixture, phase>>

get_summary(monthly_income) ==
  /\ phase = "running"
  /\ response' = SummaryResponse(app_state.transactions, monthly_income)
  /\ UNCHANGED <<fixture, app_state, phase>>

\* sorted(items, key=value, reverse=True): stable, equal values keep their order
\* variant: an entry goes in front of the entries of equal value
InsertDesc_TiesReversed(sorted, e) ==
  LET n == Cardinality({ i \in 1..Len(sorted) : sorted[i].v > e.v })
  IN  SubSeq(sorted, 1, n) \o <<e>> \o SubSeq(sorted, n + 1, Len(sorted))

InsertDesc(sorted, e) ==
  LET n == Cardinality({ i \in 1..Len(sorted) : sorted[i].v >= e.v })
  IN  SubSeq(sorted, 1, n) \o <<e>> \o SubSeq(sorted, n + 1, Len(sorted))

RECURSIVE SortFrom(_, _)
SortFrom(items, sorted) ==
  IF items = <<>> THEN sorted
  ELSE SortFrom(Tail(items), InsertDesc(sorted, Head(items)))

sorted_spend(d) == SortFrom(d, <<>>)

Tip(title, emoji, value) == [title |-> title, emoji |-> emoji, value |-> value]

TopTip(d) ==
  IF d = <<>> THEN <<>>
  ELSE LET top == sorted_spend(d)[1]
       IN  IF top.k = "Food Delivery"
             THEN <<Tip("Level-Up Your Kitchen Game!", "cooking",
                        Some(RoundHalfEven(top.v, 1)))>>
           ELSE IF top.k = "Shopping"
             THEN <<Tip("Master the 24-Hour Rule", "shopping", None)>>
           ELSE IF top.k = "Going Out"
             THEN <<Tip("Pre-Game Like a Pro", "glasses", None)>>
           ELSE <<>>

SuttaTip(d, count) ==
  IF HasKey(d, "Sutta")
    \* monthly_saving = (amount / len(transactions) * 0.75) * 30, shown with .0f
    THEN <<Tip("Power-Up Your Health & Wallet", "muscle",
               Some(RoundHalfEven(Lookup(d, "Sutta") * 3 * 30, 4 * count)))>>
    ELSE <<>>

CoffeeTip(d) ==
  IF HasKey(d, "Coffee") /\ Lookup(d, "Coffee") > CoffeeThreshold
    THEN <<Tip("Become Your Own Barista", "coffee", None)>>
    ELSE <<>>

GenericTip == <<Tip("Check Your Subscriptions", "tv", None)>>

\* variant: the last n entries are kept
LastN(s, n) == SubSeq(s, IF Len(s) < n THEN 1 ELSE Len(s) - n + 1, Len(s))

FirstN(s, n) == SubSeq(s, 1, IF Len(s) < n THEN Len(s) ELSE n)

personalized_tips(txs) ==
  LET d == calculate_analytics(txs).spend_by_category
  IN  FirstN(TopTip(d) \o SuttaTip(d, Len(txs)) \o CoffeeTip(d) \o GenericTip, TipLimit)

\* variant: tips are produced without looking at the snapshot's size
TipsResponse_NoEmptyCheck(txs, boost) ==
  [op |-> "tips", status |-> 200,
   body |-> [daily_dopamine_boost |-> boost,
             personalized_tips |-> personalized_tips(txs)]]

TipsResponse(txs, boost) ==
  IF txs = <<>>
    THEN [op |-> "tips", status |-> 404]
    ELSE [op |-> "tips", status |-> 200,
          body |-> [daily_dopamine_boost |-> boost,
                    personalized_tips |-> personalized_tips(txs)]]

get_savings_tips(boost) ==
  /\ phase = "running"
  /\ response' = TipsResponse(app_state.transactions, boost)
  /\ UNCHANGED <<fixture, app_state, phase>>

Next ==
  \/ Startup
  \/ get_all_transactions
  \/ \E i \in Incomes : get_summary(i)
  \/ \E b \in 1..NumBoosts : get_savings_tips(b)
  \/ Shutdown

Spec == Init /\ [][Next]_vars
\* =================================================================
\* Properties
\* =================================================================
Running == phase = "running"
Snapshot == app_state.transactions
Answered(op, status) ==
  /\ Running
  /\ response.op = op
  /\ response.status = status

Indices(txs) == 1..Len(txs)
RECURSIVE SumOver(_, _)
SumOver(txs, S) ==
  IF S = {} THEN 0
  ELSE LET i == CHOOSE x \in S : TRUE
       IN  txs[i].amount + SumOver(txs, S \ {i})
OfType(txs, ty) == { i \in Indices(txs) : txs[i].type = ty }
DebitsOf(txs, c) == { i \in OfType(txs, "debit") : txs[i].category = c }
Floor(n, d) == n \div d

\* ---- C1 -----------------------------------------------------------
\* C1 (as stated): for a non-empty snapshot and monthly_income > 0 the
\* summary's days_until_broke_projection is null when daily_spend_rate
\* (total_spend / period_days) is 0, otherwise 0 when money_left <= 0,
\* otherwise floor(money_left / daily_spend_rate); it is never negative.
C1_AsStated ==
  Answered("summary", 200) =>
    LET ts == SumOver(Snapshot, OfType(Snapshot, "debit"))
        pd == response.body.period_days
        ml == response.income - ts
        d  == response.body.days_until_broke_projection
    IN  /\ ts = 0 => d = None
        /\ (ts # 0 /\ ml <= 0) => d = Some(0)
        /\ (ts # 0 /\ ml > 0) => d = Some(Floor(ml * pd, ts))
        /\ d # None => d[1] >= 0

\* C1 (amended): days_until_broke_projection is null when daily_spend_rate
\* is not strictly positive (total_spend <= 0), otherwise 0 when
\* money_left <= 0, otherwise floor(money_left / daily_spend_rate); the
\* three cases are exhaustive and the result is never negative.
C1_DaysUntilBroke ==
  Answered("summary", 200) =>
    LET ts == SumOver(Snapshot, OfType(Snapshot, "debit"))
        pd == response.body.period_days
        ml == response.income - ts
        d  == response.body.days_until_broke_projection
    IN  /\ ts <= 0 => d = None
        /\ (ts > 0 /\ ml <= 0) => d = Some(0)
        /\ (ts > 0 /\ ml > 0) => d = Some(Floor(ml * pd, ts))
        /\ d # None => d[1] >= 0

C1_Witness ==
  /\ Answered("summary", 200)
  /\ response.body.days_until_broke_projection # None
  /\ response.body.days_until_broke_projection[1] >= 1
  /\ LET ts == SumOver(Snapshot, OfType(Snapshot, "debit"))
     IN  ((response.income - ts) * response.body.period_days) % ts # 0

\* ---- C2 -----------------------------------------------------------
\* C2: while the snapshot is empty, a summary request (with an income that
\* passes validation) and a tips request fail with 404 no-data, and a
\* list-transactions request succeeds with the empty sequence.
C2_EmptySnapshot ==
  (Running /\ Snapshot = <<>>) =>
    /\ (response.op = "summary" /\ response.income > 0) => response.status = 404
    /\ response.op = "tips" => response.status = 404
    /\ response.op = "list" => (response.status = 200 /\ response.body = <<>>)

C2_Witness ==
  /\ fixture.kind = "records"
  /\ fixture.records = <<>>
  /\ Answered("tips", 404)

\* ---- C3 -----------------------------------------------------------
\* C3: a summary request whose monthly_income is not strictly positive
\* fails with invalid-input (422) whatever the snapshot holds, empty or not.
C3_InvalidIncome ==
  (response.op = "summary" /\ response.income <= 0) => response.status = 422

C3_Witness ==
  /\ Answered("summary", 422)
  /\ response.income = 0
  /\ Snapshot = <<>>

\* ---- C4 -----------------------------------------------------------
LoadFails ==
  \/ fixture.kind \in {"missing", "malformed"}
  \/ \E i \in 1..Len(fixture.records) : ~fixture.records[i].ok

\* C4 (as stated): after a missing or malformed fixture (any record failing
\* validation included) startup completes, the snapshot is empty and every
\* read operation served afterwards reports no-data.
C4_AsStated ==
  LoadFails =>
    /\ phase = "boot" => ENABLED Startup
    /\ Running =>
         /\ Snapshot = <<>>
         /\ (\/ response.op \in {"list", "tips"}
             \/ (response.op = "summary" /\ response.income > 0))
              => response.status = 404

\* C4 (amended): after such a fixture startup completes and the snapshot is
\* the empty list, never a loaded prefix; afterwards tips and summary
\* requests with a valid income report no-data, while list-transactions
\* succeeds with the empty sequence.
C4_LoadFailure ==
  LoadFails =>
    /\ phase = "boot" => ENABLED Startup
    /\ Running =>
         /\ Snapshot = <<>>
         /\ response.op = "tips" => response.status = 404
         /\ (response.op = "summary" /\ response.income > 0) => response.status = 404
         /\ response.op = "list" => (response.status = 200 /\ response.body = <<>>)

C4_Witness ==
  /\ fixture.kind = "records"
  /\ Len(fixture.records) >= 2
  /\ fixture.records[1].ok
  /\ ~fixture.records[Len(fixture.records)].ok
  /\ Answered("list", 200)
  /\ Snapshot = <<>>

\* ---- C5 -----------------------------------------------------------
\* C5: every step taken while the service is running (any list, summary or
\* tips request, successful or failing) leaves the snapshot as it was, and
\* a list-transactions answer is the loaded records in load order.
C5_SnapshotFrozen ==
  [][ (Running /\ phase' = "running") =>
        /\ app_state' = app_state
        /\ (response'.op = "list" /\ LoadFails) => response'.body = <<>>
        /\ (response'.op = "list" /\ ~LoadFails) =>
             /\ Len(response'.body) = Len(fixture.records)
             /\ \A i \in 1..Len(fixture.records) :
                   response'.body[i] = fixture.records[i].txn ]_vars

C5_Witness ==
  /\ Answered("list", 200)
  /\ Len(response.body) >= 2
  /\ response.body[1].date > response.body[2].date
  /\ response.body = Snapshot

\* ---- C6 -----------------------------------------------------------
\* C6 (as stated): for a non-empty list total_spend + total_income equals
\* the sum of all amounts, each transaction counting toward exactly one
\* total (or neither when its type is unrecognized).
C6_AsStated ==
  Answered("summary", 200) =>
    /\ response.body.total_spend + response.body.total_income
         = 100 * SumOver(Snapshot, Indices(Snapshot))
    /\ response.body.total_spend = 100 * SumOver(Snapshot, OfType(Snapshot, "debit"))
    /\ response.body.total_income = 100 * SumOver(Snapshot, OfType(Snapshot, "credit"))

\* C6 (amended): for a non-empty list total_spend + total_income equals the
\* sum of the amounts of the transactions whose type is 'debit' or
\* 'credit'; a debit counts toward total_spend only, a credit toward
\* total_income only, any other type toward neither.
C6_TotalsPartition ==
  Answered("summary", 200) =>
    LET known == OfType(Snapshot, "debit") \cup OfType(Snapshot, "credit")
    IN  /\ response.body.total_spend + response.body.total_income
             = 100 * SumOver(Snapshot, known)
        /\ response.body.total_spend = 100 * SumOver(Snapshot, OfType(Snapshot, "debit"))
        /\ response.body.total_income = 100 * SumOver(Snapshot, OfType(Snapshot, "credit"))

C6_Witness ==
  /\ Answered("summary", 200)
  /\ OfType(Snapshot, "debit") # {}
  /\ \E i \in Indices(Snapshot) :
       /\ Snapshot[i].type \notin {"debit", "credit"}
       /\ Snapshot[i].amount # 0
  /\ response.body.total_spend # 0

\* ---- C7 -----------------------------------------------------------
CategoriesOf(txs) == { txs[i].category : i \in Indices(txs) }

\* C7 (as stated): spend_by_category maps a category to the sum of its
\* debit amounts only, and a category whose debit spend is zero (no debit
\* transactions, or only zero-amount debits) is absent from the mapping.
C7_AsStated ==
  Answered("summary", 200) =>
    LET d == response.body.spend_by_category
    IN  /\ \A i \in 1..Len(d) :
             d[i].v = 100 * SumOver(Snapshot, DebitsOf(Snapshot, d[i].k))
        /\ \A c \in CategoriesOf(Snapshot) :
             SumOver(Snapshot, DebitsOf(Snapshot, c)) = 0 => ~HasKey(d, c)

\* C7 (amended): spend_by_category maps a category to the sum of its debit
\* amounts only; a category is a key exactly when it has at least one
\* debit transaction, so a category whose debits sum to zero is present
\* with value 0 and only a category without debits is absent.
C7_SpendByCategory ==
  Answered("summary", 200) =>
    LET d == response.body.spend_by_category
    IN  /\ \A i \in 1..Len(d) :
             d[i].v = 100 * SumOver(Snapshot, DebitsOf(Snapshot, d[i].k))
        /\ \A i, j \in 1..Len(d) : d[i].k = d[j].k => i = j
        /\ \A c \in CategoriesOf(Snapshot) :
             DebitsOf(Snapshot, c) # {} <=> HasKey(d, c)
        /\ \A i \in 1..Len(d) : d[i].k \in CategoriesOf(Snapshot)

C7_Witness ==
  /\ Answered("summary", 200)
  /\ \E i \in 1..Len(response.body.spend_by_category) :
       response.body.spend_by_category[i].v = 0
  /\ \E c \in CategoriesOf(Snapshot) : DebitsOf(Snapshot, c) = {}

\* ---- C8 -----------------------------------------------------------
TopTitles ==
  [c \in {"Food Delivery", "Shopping", "Going Out"} |->
     IF c = "Food Delivery" THEN "Level-Up Your Kitchen Game!"
     ELSE IF c = "Shopping" THEN "Master the 24-Hour Rule"
     ELSE "Pre-Game Like a Pro"]
GenericTitle == "Check Your Subscriptions"
Titles(tips) == [i \in 1..Len(tips) |-> tips[i].title]

\* the categories holding the highest debit total
Highest(d) == { d[i].k : i \in { x \in 1..Len(d) : \A y \in 1..Len(d) : d[x].v >= d[y].v } }
\* the key the ranking puts first: highest total, earliest key among equals
Ranked1(d) ==
  d[CHOOSE x \in 1..Len(d) :
      \A y \in 1..Len(d) : d[x].v > d[y].v \/ (d[x].v = d[y].v /\ x <= y)].k

ExpectedTitles(txs) ==
  LET d == spend_by_category(txs)
  IN  (IF d # <<>> /\ Ranked1(d) \in DOMAIN TopTitles
         THEN <<TopTitles[Ranked1(d)]>> ELSE <<>>)
      \o (IF DebitsOf(txs, "Sutta") # {}
            THEN <<"Power-Up Your Health & Wallet">> ELSE <<>>)
      \o (IF SumOver(txs, DebitsOf(txs, "Coffee")) > 200
            THEN <<"Become Your Own Barista">> ELSE <<>>)
      \o <<GenericTitle>>

\* C8: for a non-empty snapshot the tips are the first 3 entries of
\* [top-category tip, Sutta tip, Coffee tip, generic tip] (each under its
\* trigger): 1 to 3 entries, the top-category tip first when present, the
\* generic tip present exactly when fewer than 3 other tips were generated.
C8_TipsOrder ==
  Answered("tips", 200) =>
    LET got == Titles(response.body.personalized_tips)
        exp == ExpectedTitles(Snapshot)
        others == Len(exp) - 1
    IN  /\ Len(got) >= 1 /\ Len(got) <= 3
        /\ got = SubSeq(exp, 1, Len(got))
        /\ Len(got) = (IF Len(exp) < 3 THEN Len(exp) ELSE 3)
        /\ \A i \in 1..Len(got) :
             got[i] \in { TopTitles[c] : c \in DOMAIN TopTitles } => i = 1
        /\ (\E i \in 1..Len(got) : got[i] = GenericTitle) <=> others < 3

C8_Witness ==
  /\ Answered("tips", 200)
  /\ Titles(response.body.personalized_tips) =
       <<"Level-Up Your Kitchen Game!", "Power-Up Your Health & Wallet",
         "Become Your Own Barista">>

\* ---- C9 -----------------------------------------------------------
\* C9: for a non-empty list period_days is (latest date - earliest date) + 1
\* over the transactions of every type; it is at least 1, and exactly 1
\* when all transactions share one date.
C9_PeriodDays ==
  Answered("summary", 200) =>
    LET pd == response.body.period_days
    IN  /\ \E i, j \in Indices(Snapshot) :
             /\ \A k \in Indices(Snapshot) :
                  Snapshot[j].date <= Snapshot[k].date /\ Snapshot[k].date <= Snapshot[i].date
             /\ pd = Snapshot[i].date - Snapshot[j].date + 1
        /\ pd >= 1
        /\ (\A i, j \in Indices(Snapshot) : Snapshot[i].date = Snapshot[j].date) => pd = 1

C9_Witness ==
  /\ Answered("summary", 200)
  /\ response.body.period_days = MaxDay
  /\ \E i, j \in Indices(Snapshot) :
       /\ Snapshot[i].date = 1 /\ Snapshot[i].type = "credit"
       /\ Snapshot[j].date = MaxDay /\ Snapshot[j].type = "Debit"

\* ---- C10 ----------------------------------------------------------
FirstDebit(txs, c) ==
  CHOOSE i \in DebitsOf(txs, c) : \A j \in DebitsOf(txs, c) : i <= j
\* among the categories with the highest total, the one whose first debit
\* comes earliest in the snapshot
EarliestHighest(txs) ==
  LET H == Highest(spend_by_category(txs))
  IN  CHOOSE c \in H : \A o \in H : FirstDebit(txs, c) <= FirstDebit(txs, o)

Reversed(txs) == [i \in 1..Len(txs) |-> txs[Len(txs) + 1 - i]]
EntrySet(d) == { d[i] : i \in 1..Len(d) }

\* C10: when categories tie for the highest debit total, step 1 of the tips
\* takes the tied category whose first debit transaction is earliest in the
\* snapshot (the mapping keeps insertion order and the descending sort is
\* stable).
C10_TieBreak ==
  Answered("tips", 200) =>
    LET d == spend_by_category(Snapshot)
        got == Titles(response.body.personalized_tips)
        top == EarliestHighest(Snapshot)
    IN  d # <<>> =>
             IF top \in DOMAIN TopTitles
               THEN got[1] = TopTitles[top]
               ELSE got[1] \notin { TopTitles[c] : c \in DOMAIN TopTitles }

\* a tie whose outcome depends on the order: the same transactions in the
\* opposite order carry the same totals and get a different tips list
C10_Witness ==
  /\ Answered("tips", 200)
  /\ Cardinality(Highest(spend_by_category(Snapshot))) >= 2
  /\ EntrySet(spend_by_category(Reversed(Snapshot))) = EntrySet(spend_by_category(Snapshot))
  /\ personalized_tips(Reversed(Snapshot)) # response.body.personalized_tips

====
